---- MODULE Spec2Model ----
(***************************************************************************)
(* Model of the YouTube video summarizer:                                  *)
(*   src/src/app/actions.ts               summarizeVideo, generateContent, *)
(*                                        getTranscript, getYoutubeId      *)
(*   src/src/components/video-summarizer.tsx   VideoSummarizer.onSubmit    *)
(*                                                                         *)
(* JavaScript strings are TLA+ strings; a nullable value is a sequence of  *)
(* length 0 (null) or 1 (the value).  An async function is cut at its      *)
(* awaits: one action per continuation, promise reactions (microtasks)     *)
(* included in the action that triggers them.                              *)
(***************************************************************************)
EXTENDS Integers, Sequences, FiniteSets, TLC

\* ------------------------------------------------------------------ bounds
MaxSubmits == 2

\* lines per key-points response
MaxLines == 3

\* transcript lengths range over the budget -MaxDelta .. +MaxDelta
MaxDelta == 3

\* --------------------------------------------------------- nullable values
Null == <<>>
Some(v) == <<v>>

\* ------------------------------------------------------- string primitives
CharAt(s, i) == SubSeq(s, i, i)

\* s.slice(from) for 1-based from
SliceFrom(s, from) == IF from > Len(s) THEN "" ELSE SubSeq(s, from, Len(s))

\* s.slice(0, n)
SliceTo(s, n) == IF n <= 0 THEN "" ELSE IF n >= Len(s) THEN s ELSE SubSeq(s, 1, n)

\* String.prototype.includes
includes(s, sub) ==
    \E i \in 1..(Len(s) - Len(sub) + 1) : SubSeq(s, i, i + Len(sub) - 1) = sub

\* literal lit occurs in s at position i
StartsAt(s, i, lit) ==
    /\ i >= 1
    /\ i + Len(lit) - 1 <= Len(s)
    /\ SubSeq(s, i, i + Len(lit) - 1) = lit

Digits == {"0", "1", "2", "3", "4", "5", "6", "7", "8", "9"}

Letters ==
    {"a", "b", "c", "d", "e", "f", "g", "h", "i", "j", "k", "l", "m",
     "n", "o", "p", "q", "r", "s", "t", "u", "v", "w", "x", "y", "z",
     "A", "B", "C", "D", "E", "F", "G", "H", "I", "J", "K", "L", "M",
     "N", "O", "P", "Q", "R", "S", "T", "U", "V", "W", "X", "Y", "Z"}

\* the regular-expression class \w
WordChars == Letters \cup Digits \cup {"_"}

\* the regular-expression class \s (the members that occur in the inputs)
WhiteSpace == {" ", "\t", "\n", "\r"}

RECURSIVE SkipSpace(_, _)
\* first index >= i of s that is not white space (Len(s)+1 if none)
SkipSpace(s, i) ==
    IF i <= Len(s) /\ CharAt(s, i) \in WhiteSpace THEN SkipSpace(s, i + 1) ELSE i

RECURSIVE SkipSpaceBack(_, _)
\* last index <= i of s that is not white space (0 if none)
SkipSpaceBack(s, i) ==
    IF i >= 1 /\ CharAt(s, i) \in WhiteSpace THEN SkipSpaceBack(s, i - 1) ELSE i

\* String.prototype.trim
trim(s) ==
    LET a == SkipSpace(s, 1)
        b == SkipSpaceBack(s, Len(s))
    IN  IF a > b THEN "" ELSE SubSeq(s, a, b)

RECURSIVE IndexOf(_, _, _)
\* first index >= i of the one-character string c in s, 0 if none
IndexOf(s, c, i) ==
    IF i > Len(s) THEN 0
    ELSE IF CharAt(s, i) = c THEN i
    ELSE IndexOf(s, c, i + 1)

RECURSIVE split(_, _)
\* String.prototype.split with a one-character separator
split(s, sep) ==
    LET k == IndexOf(s, sep, 1)
    IN  IF k = 0 THEN <<s>>
        ELSE <<SliceTo(s, k - 1)>> \o split(SliceFrom(s, k + 1), sep)

RECURSIVE SkipDigits(_, _)
\* first index >= i of s that is not a decimal digit
SkipDigits(s, i) ==
    IF i <= Len(s) /\ CharAt(s, i) \in Digits THEN SkipDigits(s, i + 1) ELSE i

\* variant: the marker has a single digit, /^\d\.\s*/
stripMarker_oneDigit(point) ==
    IF Len(point) >= 2 /\ CharAt(point, 1) \in Digits /\ CharAt(point, 2) = "."
    THEN SliceFrom(point, SkipSpace(point, 3))
    ELSE point

\* point.replace(/^\d+\.\s*/, '')
stripMarker(point) ==
    LET d == SkipDigits(point, 1)
    IN  IF d > 1 /\ d <= Len(point) /\ CharAt(point, d) = "."
        THEN SliceFrom(point, SkipSpace(point, d + 1))
        ELSE point

\* keyPoints.split('\n').filter(p => p.trim() !== '')
\*          .map(p => p.replace(/^\d+\.\s*/, '').trim())
parseKeyPoints(text) ==
    LET lines == split(text, "\n")
        kept  == SelectSeq(lines, LAMBDA p : trim(p) # "")
    IN  [i \in 1..Len(kept) |-> trim(stripMarker(kept[i]))]

\* ------------------------------------------------------------ getYoutubeId
\* characters excluded from capture group 2, [^#\&\?]
IdStop == {"#", "&", "?"}

IdLength == 11

\* length of the alternative of capture group 1 that matches at i, 0 if none
MarkerLen(s, i) ==
    IF /\ StartsAt(s, i, "youtu")
       /\ i + 5 <= Len(s)
       /\ CharAt(s, i + 5) # "\n"
       /\ StartsAt(s, i + 6, "be/") THEN 9
    ELSE IF StartsAt(s, i, "v/") THEN 2
    ELSE IF /\ StartsAt(s, i, "u/")
            /\ i + 2 <= Len(s)
            /\ CharAt(s, i + 2) \in WordChars
            /\ StartsAt(s, i + 3, "/") THEN 4
    ELSE IF StartsAt(s, i, "embed/") THEN 6
    ELSE IF StartsAt(s, i, "watch?v=") THEN 8
    ELSE IF StartsAt(s, i, "&v=") THEN 3
    ELSE 0

RECURSIVE TokenEnd(_, _)
\* greedy [^#\&\?]* from j: index just past the captured token
TokenEnd(s, j) ==
    IF j <= Len(s) /\ CharAt(s, j) \notin IdStop THEN TokenEnd(s, j + 1) ELSE j

\* positions where ^.*(marker) can end its leading .* ('.' excludes newline)
MarkerPositions(s) ==
    {i \in 1..Len(s) :
        /\ MarkerLen(s, i) > 0
        /\ \A k \in 1..(i - 1) : CharAt(s, k) # "\n"}

\* url.match(regExp): Null, or match[2]; the leading .* is greedy, so the
\* last marker position wins
regExpMatch(url) ==
    LET ps == MarkerPositions(url)
    IN  IF ps = {} THEN Null
        ELSE LET p == CHOOSE i \in ps : \A k \in ps : k <= i
                 a == p + MarkerLen(url, p)
                 b == TokenEnd(url, a)
             IN  Some(IF b > a THEN SubSeq(url, a, b - 1) ELSE "")

\* variant: any token of at least 11 characters is accepted
getYoutubeId_atLeast(url) ==
    LET match == regExpMatch(url)
    IN  IF match # Null /\ Len(match[1]) >= IdLength THEN Some(match[1]) ELSE Null

getYoutubeId(url) ==
    LET match == regExpMatch(url)
    IN  IF match # Null /\ Len(match[1]) = IdLength THEN Some(match[1]) ELSE Null

\* ------------------------------------------------------------ environment
\* a value thrown by an external service: an Error with its message, or a
\* value that is not an Error and has no message property
Error(m) == [isError |-> TRUE, message |-> m]
NonError == [isError |-> FALSE, message |-> ""]

MsgPlain == "fetch failed"
MsgQuota == "[429] quota exceeded, permission to read the transcript not checked"
MsgPermission == "[403] permission denied for the transcript"

\* what ytdl.getInfo and model.generateContent may throw
ModelFailures == {Error(MsgPlain), Error(MsgQuota), Error(MsgPermission)}
InfoFailures == ModelFailures \cup {NonError}

\* videoDetails returned by ytdl.getInfo (description "" when absent)
VideoDetails == {[title |-> "Demo", description |-> ""]}

\* outcomes of YoutubeTranscript.fetchTranscript: the texts of the entries,
\* or a failure
TranscriptOutcomes ==
    {[ok |-> FALSE, texts |-> <<>>],
     [ok |-> TRUE, texts |-> <<>>],
     [ok |-> TRUE, texts |-> <<"">>],
     [ok |-> TRUE, texts |-> <<"hello", "world">>]}

\* the three generateContent calls of Promise.all, in argument order
ShortCall == 1
LongCall == 2
KeyPointsCall == 3
Calls == {ShortCall, LongCall, KeyPointsCall}

KeyPointTexts ==
    <<"1. First\n\n2. Second\n3. Third", "1. Alpha\n  \n23.  Beta ", "Gamma\n">>

\* response.text() of the a-th invocation made by call i: every invocation
\* answers with its own text
ModelText(i, a) ==
    IF i = KeyPointsCall THEN KeyPointTexts[((a - 1) % Len(KeyPointTexts)) + 1]
    ELSE (IF i = ShortCall THEN "short #" ELSE "long #") \o ToString(a)

\* URLs handed to summarizeVideo
Urls ==
    {"https://www.youtube.com/watch?v=dQw4w9WgXcQ",
     "youtu.be/dQw4w9WgXcQ?t=42",
     "https://www.youtube.com/watch?v=dQw4w9WgXc",
     "https://www.youtube.com/watch?v=dQw4w9WgXcQQ",
     "https://www.youtube.com/watch?v=dQw4w9WgXcQ&v=short",
     "https://www.youtube.com/embed/?rel=0",
     "https://www.youtube.com/feed/trending",
     "https://example.com/clip",
     "x\nwatch?v=dQw4w9WgXcQ",
     ""}

\* ------------------------------------------------------------------- state
VARIABLES
    req,        \* the frame of the summarizeVideo invocation
    gen,        \* the frames of its three generateContent calls
    calls,      \* external calls issued by the invocation and the outcome
                \* of the transcript fetch (observation)
    summary, error, isLoading, progress, retryCount,   \* useState of the form
    intervals,  \* setInterval timers of the form that are not cleared
    nsub,       \* number of onSubmit calls so far
    awaiting,   \* an onSubmit call is suspended at await summarizeVideo
    pure        \* a pure function of actions.ts applied to one input

serverVars == <<req, gen, calls>>
formVars == <<summary, error, isLoading, progress, retryCount, intervals, nsub, awaiting>>
vars == <<req, gen, calls, summary, error, isLoading, progress, retryCount,
          intervals, nsub, awaiting, pure>>

\* ---------------------------------------------------------- summarizeVideo
BudgetLength == 10000

\* variant: the marker is appended from the budget length on
truncate_fromBudget(transcript) ==
    SliceTo(transcript, BudgetLength)
        \o (IF Len(transcript) >= BudgetLength THEN "..." ELSE "")

\* transcript.slice(0, 10000) + (transcript.length > 10000 ? '...' : '')
truncate(transcript) ==
    SliceTo(transcript, BudgetLength)
        \o (IF Len(transcript) > BudgetLength THEN "..." ELSE "")

RECURSIVE join(_, _)
\* Array.prototype.join
join(texts, sep) ==
    IF Len(texts) = 0 THEN ""
    ELSE IF Len(texts) = 1 THEN texts[1]
    ELSE texts[1] \o sep \o join(Tail(texts), sep)

\* variant: a failure of the service becomes a placeholder text
getTranscript_placeholder(outcome) ==
    IF outcome.ok THEN join(outcome.texts, " ") ELSE "Transcript unavailable"

\* getTranscript: a failure of the service becomes the empty string
getTranscript(outcome) ==
    IF outcome.ok THEN join(outcome.texts, " ") ELSE ""

shortSummaryPrompt(title, transcript) ==
    "Provide a concise summary (50-100 words) of the following YouTube video based on its transcript:\n\n    Title: "
        \o title \o "\n    Transcript: " \o transcript
        \o "\n\n    Focus on the main topic and key takeaways."

longSummaryPrompt(title, description, transcript) ==
    "Provide a comprehensive summary (300-500 words) of the following YouTube video based on its transcript:\n\n    Title: "
        \o title \o "\n    Description: " \o description
        \o "\n    Transcript: " \o transcript
        \o "\n\n    Include main points, supporting details, and any conclusions or calls to action presented in the video."

keyPointsPrompt(title, transcript) ==
    "List 5-7 key points from the following YouTube video transcript:\n\n    Title: "
        \o title \o "\n    Transcript: " \o transcript
        \o "\n\n    Present each point as a brief, informative statement."

QuotaMessage == "API quota exceeded. Please try again later."
AccessMessage == "Unable to access the video. It might be private or age-restricted."
TranscriptMessage == "Unable to get video transcript. The video might not have captions available."
GenericPrefix == "Failed to summarize video: "
UnexpectedMessage == "An unexpected error occurred while summarizing the video"
InvalidUrlError == Error("Invalid YouTube URL")
NoTranscriptError ==
    Error("Unable to fetch video transcript. The video might not have captions available.")

\* variant: the permission test comes before the quota test
classify_permissionFirst(e) ==
    IF e.isError
    THEN IF includes(e.message, "permission") THEN AccessMessage
         ELSE IF includes(e.message, "quota") THEN QuotaMessage
         ELSE IF includes(e.message, "transcript") THEN TranscriptMessage
         ELSE GenericPrefix \o e.message
    ELSE UnexpectedMessage

\* the catch block of summarizeVideo: the message of the Error it rethrows
classify(e) ==
    IF e.isError
    THEN IF includes(e.message, "quota") THEN QuotaMessage
         ELSE IF includes(e.message, "permission") THEN AccessMessage
         ELSE IF includes(e.message, "transcript") THEN TranscriptMessage
         ELSE GenericPrefix \o e.message
    ELSE UnexpectedMessage

IdleFrame ==
    [pc |-> "idle", url |-> "", videoId |-> Null, title |-> "",
     description |-> "", transcript |-> "", result |-> Null,
     caught |-> Null, error |-> Null]

\* variant: the caught value is rethrown as it is
Rethrow_raw(frame, e) ==
    [frame EXCEPT !.pc = "thrown", !.caught = Some(e), !.error = Some(e.message)]

\* the frame after the catch block has rethrown for the caught value e
Rethrow(frame, e) ==
    [frame EXCEPT !.pc = "thrown", !.caught = Some(e), !.error = Some(classify(e))]

\* --------------------------------------------------------- generateContent
\* variant: one attempt more
maxAttempts_four == 3 + 1

maxAttempts == 3

\* variant: the exponent is the 0-based attempt index
backoffDelay_fromOne(attempt) == (2 ^ attempt) * 1000

\* Math.pow(2, attempt + 1) * 1000
backoffDelay(attempt) == (2 ^ (attempt + 1)) * 1000

IdleCall ==
    [pc |-> "idle", prompt |-> "", attempt |-> 0, lastError |-> Null,
     timer |-> 0, result |-> Null, thrown |-> Null,
     invocations |-> 0, outcomes |-> <<>>, delays |-> <<>>, lastFailure |-> Null]

\* generateContent(model, prompt) up to its first await: the loop is entered
\* and model.generateContent is invoked
startCall(prompt) ==
    [IdleCall EXCEPT !.pc = "call", !.prompt = prompt, !.invocations = 1]

\* variant: the message of the last error is left out
exhaustedError_noCause(lastError) ==
    Error("Failed to generate content after " \o ToString(maxAttempts)
          \o " attempts. ")

\* `Failed to generate content after ${maxAttempts} attempts. ${lastError?.message || ''}`
exhaustedError(lastError) ==
    Error("Failed to generate content after " \o ToString(maxAttempts)
          \o " attempts. " \o (IF lastError = Null THEN "" ELSE lastError[1].message))

\* the call frame after response.text() has been returned
returned(c, text) ==
    [c EXCEPT !.pc = "done", !.result = Some(text), !.lastError = Null,
              !.lastFailure = Null, !.outcomes = Append(@, "ok")]

\* the call frame after the catch block has run for the thrown value e
caughtFailure(c, e) ==
    LET seen == [c EXCEPT !.lastError = Some(e), !.lastFailure = Some(e),
                          !.outcomes = Append(@, "fail")]
    IN  IF c.attempt < maxAttempts - 1
        THEN [seen EXCEPT !.pc = "backoff", !.timer = backoffDelay(c.attempt)]
        ELSE [seen EXCEPT !.pc = "failed", !.attempt = c.attempt + 1,
                          !.thrown = Some(exhaustedError(seen.lastError)),
                          !.lastError = Null]

\* the call frame after the backoff timer has fired: next iteration
retried(c) ==
    [c EXCEPT !.pc = "call", !.attempt = c.attempt + 1, !.timer = 0,
              !.delays = Append(@, c.timer), !.invocations = @ + 1]

\* ----------------------------------------------------- server-side actions
Running(c) == c.pc \in {"call", "backoff"}

\* none of the calls of the previous invocation is still running: the next
\* invocation gets fresh frames
Drained == \A i \in Calls : ~Running(gen[i])

\* summarizeVideo is suspended at one of its awaits
Pending == req.pc \in {"getInfo", "getTranscript", "generating"}

\* no summarizeVideo invocation is pending and the previous one is drained
ServerIdle ==
    /\ req.pc \in {"idle", "returned", "thrown"}
    /\ Drained

\* summarizeVideo(videoUrl) up to its first await
StartRequest(url) ==
    LET videoId == getYoutubeId(url)
        frame == [IdleFrame EXCEPT !.url = url, !.videoId = videoId]
    IN  /\ Drained
        /\ gen' = [i \in Calls |-> IdleCall]
        /\ IF videoId = Null
           THEN /\ req' = Rethrow(frame, InvalidUrlError)
                /\ calls' = [info |-> 0, transcript |-> 0, fetched |-> Null]
           ELSE /\ req' = [frame EXCEPT !.pc = "getInfo"]
                /\ calls' = [info |-> 1, transcript |-> 0, fetched |-> Null]

\* ytdl.getInfo resolves: title and description are read, getTranscript is
\* entered and YoutubeTranscript.fetchTranscript is called
InfoResolves(details) ==
    /\ req.pc = "getInfo"
    /\ req' = [req EXCEPT !.pc = "getTranscript",
                          !.title = details.title,
                          !.description = IF details.description = ""
                                          THEN "No description available."
                                          ELSE details.description]
    /\ calls' = [calls EXCEPT !.transcript = @ + 1]
    /\ UNCHANGED <<gen, formVars, pure>>

\* variant: a rejection of ytdl.getInfo is swallowed and the transcript is
\* fetched all the same
InfoRejects_swallowed(e) ==
    /\ req.pc = "getInfo"
    /\ req' = [req EXCEPT !.pc = "getTranscript"]
    /\ calls' = [calls EXCEPT !.transcript = @ + 1]
    /\ UNCHANGED <<gen, formVars, pure>>

\* ytdl.getInfo rejects: the catch block rethrows
InfoRejects(e) ==
    /\ req.pc = "getInfo"
    /\ req' = Rethrow(req, e)
    /\ UNCHANGED <<gen, calls, formVars, pure>>

\* fetchTranscript settles: getTranscript returns; on an empty transcript the
\* request throws, otherwise the prompts are built and the three
\* generateContent calls are started
TranscriptSettles(outcome) ==
    LET transcript == getTranscript(outcome)
        truncatedTranscript == truncate(transcript)
    IN  /\ req.pc = "getTranscript"
        /\ IF transcript = ""
           THEN /\ req' = Rethrow(req, NoTranscriptError)
                /\ UNCHANGED gen
           ELSE /\ req' = [req EXCEPT !.pc = "generating",
                                      !.transcript = truncatedTranscript]
                /\ gen' = [i \in Calls |->
                             startCall(
                               IF i = ShortCall
                               THEN shortSummaryPrompt(req.title, truncatedTranscript)
                               ELSE IF i = LongCall
                               THEN longSummaryPrompt(req.title, req.description,
                                                      truncatedTranscript)
                               ELSE keyPointsPrompt(req.title, truncatedTranscript))]
        /\ calls' = [calls EXCEPT !.fetched = Some(outcome)]
        /\ UNCHANGED <<formVars, pure>>

\* the value summarizeVideo returns from the three texts
summaryResult(g) ==
    [shortSummary |-> g[ShortCall].result[1],
     longSummary |-> g[LongCall].result[1],
     keyPoints |-> parseKeyPoints(g[KeyPointsCall].result[1])]

\* variant: a rejected call is ignored by the join
joinAll_ignoreRejection(frame, g, i) ==
    IF frame.pc # "generating" THEN frame
    ELSE IF \A j \in Calls : g[j].pc = "done"
    THEN [frame EXCEPT !.pc = "returned", !.result = Some(summaryResult(g))]
    ELSE frame

\* variant: the join fulfils with the first call that returns (Promise.race)
joinAll_race(frame, g, i) ==
    IF frame.pc # "generating" THEN frame
    ELSE IF g[i].pc = "failed" THEN Rethrow(frame, g[i].thrown[1])
    ELSE [frame EXCEPT !.pc = "returned",
                       !.result = Some([shortSummary |-> g[i].result[1],
                                        longSummary |-> g[i].result[1],
                                        keyPoints |-> parseKeyPoints(g[i].result[1])])]

\* Promise.all over the call frames g, seen from the awaiting request: it
\* rejects with the first rejection, fulfils when all three are fulfilled
joinAll(frame, g, i) ==
    IF frame.pc # "generating" THEN frame
    ELSE IF g[i].pc = "failed" THEN Rethrow(frame, g[i].thrown[1])
    ELSE IF \A j \in Calls : g[j].pc = "done"
    THEN [frame EXCEPT !.pc = "returned", !.result = Some(summaryResult(g))]
    ELSE frame

\* model.generateContent of call i resolves: the call returns the text
ModelResolves(i) ==
    /\ gen[i].pc = "call"
    /\ gen' = [gen EXCEPT ![i] = returned(@, ModelText(i, @.invocations))]
    /\ req' = joinAll(req, gen', i)
    /\ UNCHANGED <<calls, formVars, pure>>

\* model.generateContent of call i rejects with e: the catch block runs and
\* either arms the backoff timer or the loop ends and the call throws
ModelRejects(i, e) ==
    /\ gen[i].pc = "call"
    /\ gen' = [gen EXCEPT ![i] = caughtFailure(@, e)]
    /\ req' = joinAll(req, gen', i)
    /\ UNCHANGED <<calls, formVars, pure>>

\* the backoff timer of call i fires: the next attempt invokes the model
BackoffElapsed(i) ==
    /\ gen[i].pc = "backoff"
    /\ gen' = [gen EXCEPT ![i] = retried(@)]
    /\ UNCHANGED <<req, calls, formVars, pure>>

\* a direct invocation of the exported server action
Invoke(url) ==
    /\ ~awaiting
    /\ ServerIdle
    /\ StartRequest(url)
    /\ UNCHANGED <<formVars, pure>>

\* -------------------------------------------------------------- the form
\* z.string().url(): the string parses as an absolute URL
isUrl(s) ==
    \E scheme \in {"http://", "https://"} :
        StartsAt(s, 1, scheme) /\ Len(s) > Len(scheme)

formSchema(videoUrl) ==
    /\ isUrl(videoUrl)
    /\ includes(videoUrl, "youtube.com") \/ includes(videoUrl, "youtu.be")

ProgressStep == 10
ProgressCeiling == 90

\* variant: the ceiling test is strict
tick_strictCeiling(prevProgress) ==
    IF prevProgress > ProgressCeiling
    THEN [progress |-> prevProgress, clear |-> TRUE]
    ELSE [progress |-> prevProgress + ProgressStep, clear |-> FALSE]

\* the callback of setInterval together with its setProgress updater
tick(prevProgress) ==
    IF prevProgress >= ProgressCeiling
    THEN [progress |-> prevProgress, clear |-> TRUE]
    ELSE [progress |-> prevProgress + ProgressStep, clear |-> FALSE]

\* variant: the submit button is not disabled while loading
Submit_notDisabled(videoUrl) ==
    /\ nsub < MaxSubmits
    /\ formSchema(videoUrl)
    /\ isLoading' = TRUE
    /\ error' = Null
    /\ summary' = Null
    /\ progress' = 0
    /\ retryCount' = 0
    /\ nsub' = nsub + 1
    /\ intervals' = intervals \cup {nsub + 1}
    /\ awaiting' = TRUE
    /\ StartRequest(videoUrl)
    /\ UNCHANGED pure

\* the submit button (disabled while isLoading) is pressed with a value that
\* passes formSchema: onSubmit runs up to await summarizeVideo(values.videoUrl)
Submit(videoUrl) ==
    /\ ~isLoading
    /\ nsub < MaxSubmits
    /\ formSchema(videoUrl)
    /\ isLoading' = TRUE
    /\ error' = Null
    /\ summary' = Null
    /\ progress' = 0
    /\ retryCount' = 0
    /\ nsub' = nsub + 1
    /\ intervals' = intervals \cup {nsub + 1}
    /\ awaiting' = TRUE
    /\ StartRequest(videoUrl)
    /\ UNCHANGED pure

\* the interval timer k fires
Tick(k) ==
    /\ k \in intervals
    /\ progress' = tick(progress).progress
    /\ intervals' = IF tick(progress).clear THEN intervals \ {k} ELSE intervals
    /\ UNCHANGED <<serverVars, summary, error, isLoading, retryCount, nsub, awaiting, pure>>

\* await summarizeVideo fulfils: rest of the try block, then finally
SubmitResolves ==
    /\ awaiting
    /\ req.pc = "returned"
    /\ summary' = req.result
    /\ progress' = 100
    /\ intervals' = intervals \ {nsub}
    /\ isLoading' = FALSE
    /\ awaiting' = FALSE
    /\ UNCHANGED <<serverVars, error, retryCount, nsub, pure>>

\* variant: the patterns are spelt in another case
isRetryable_otherCase(errorMessage) ==
    includes(errorMessage, "api quota") \/ includes(errorMessage, "Try again")

\* the retry test of the catch block
isRetryable(errorMessage) ==
    includes(errorMessage, "API quota") \/ includes(errorMessage, "try again")

\* variant: the catch block does not store the message
SubmitRejects_noError ==
    /\ awaiting
    /\ req.pc = "thrown"
    /\ error' = Null
    /\ retryCount' = IF isRetryable(req.error[1]) THEN retryCount + 1 ELSE retryCount
    /\ isLoading' = FALSE
    /\ awaiting' = FALSE
    /\ UNCHANGED <<serverVars, summary, progress, intervals, nsub, pure>>

\* await summarizeVideo rejects: the catch block, then finally
SubmitRejects ==
    /\ awaiting
    /\ req.pc = "thrown"
    /\ LET errorMessage == req.error[1]
       IN  /\ error' = Some(errorMessage)
           /\ retryCount' = IF isRetryable(errorMessage)
                            THEN retryCount + 1 ELSE retryCount
    /\ isLoading' = FALSE
    /\ awaiting' = FALSE
    /\ UNCHANGED <<serverVars, summary, progress, intervals, nsub, pure>>

\* ----------------------------------------------------------- specification
InitProgram ==
    /\ req = IdleFrame
    /\ gen = [i \in Calls |-> IdleCall]
    /\ calls = [info |-> 0, transcript |-> 0, fetched |-> Null]
    /\ summary = Null
    /\ error = Null
    /\ isLoading = FALSE
    /\ progress = 0
    /\ retryCount = 0
    /\ intervals = {}
    /\ nsub = 0
    /\ awaiting = FALSE

NoPure == [fn |-> "none", input |-> "", output |-> Null]

Init == InitProgram /\ pure = NoPure

ServerStep ==
    \/ \E details \in VideoDetails : InfoResolves(details)
    \/ \E e \in InfoFailures : InfoRejects(e)
    \/ \E outcome \in TranscriptOutcomes : TranscriptSettles(outcome)
    \/ \E i \in Calls : ModelResolves(i)
    \/ \E i \in Calls, e \in ModelFailures : ModelRejects(i, e)
    \/ \E i \in Calls : BackoffElapsed(i)

\* the form in the browser and the server action it calls
Next ==
    \/ \E videoUrl \in Urls : Submit(videoUrl)
    \/ \E k \in 1..MaxSubmits : Tick(k)
    \/ SubmitResolves
    \/ SubmitRejects
    \/ ServerStep

Spec == Init /\ [][Next]_vars

\* the continuation of onSubmit runs once the promise it awaits has settled
SpecLive == Spec /\ WF_vars(SubmitResolves) /\ WF_vars(SubmitRejects)

\* ------------------------------------------------- pure functions, alone
RECURSIVE repeat(_, _)
\* String.prototype.repeat
repeat(s, n) ==
    IF n = 0 THEN ""
    ELSE IF n % 2 = 1 THEN s \o repeat(s, n - 1)
    ELSE LET half == repeat(s, n \div 2) IN half \o half

\* transcripts of a length around the budget, and short ones
Transcripts ==
    LET base == repeat("abcdefghij", 1000) \o "ABCDEFGHIJ"
    IN  {SliceTo(base, n) : n \in (BudgetLength - MaxDelta)..(BudgetLength + MaxDelta)}
            \cup {"", "hello world", base \o base}

KeyPointLines ==
    {"1. First", "2. Second", "3. Third", "", "  ", "23.  Beta ", "3.", "4. ",
     "Gamma", " 5. indented", "6.Six"}

\* response texts of the key-points call: up to MaxLines lines
KeyPointResponses ==
    {join(ls, "\n") : ls \in UNION {[1..n -> KeyPointLines] : n \in 1..MaxLines}}
        \cup {"1. First\n\n2. Second\n3. Third"}

InitPure ==
    /\ InitProgram
    /\ pure \in {[fn |-> "truncate", input |-> t, output |-> Null] : t \in Transcripts}
          \cup {[fn |-> "parseKeyPoints", input |-> k, output |-> Null] :
                    k \in KeyPointResponses}

\* the transcript is truncated as summarizeVideo does before building prompts
ApplyTruncate ==
    /\ pure.fn = "truncate"
    /\ pure.output = Null
    /\ pure' = [pure EXCEPT !.output = Some(truncate(pure.input))]
    /\ UNCHANGED <<serverVars, formVars>>

\* the key-points text is post-processed as summarizeVideo does on return
ApplyParseKeyPoints ==
    /\ pure.fn = "parseKeyPoints"
    /\ pure.output = Null
    /\ pure' = [pure EXCEPT !.output = Some(parseKeyPoints(pure.input))]
    /\ UNCHANGED <<serverVars, formVars>>

NextPure == ApplyTruncate \/ ApplyParseKeyPoints

SpecPure == InitPure /\ [][NextPure]_vars

\* the server action invoked directly, with any string
NextServer ==
    \/ \E url \in Urls : Invoke(url)
    \/ ServerStep

SpecServer == Init /\ [][NextServer]_vars

\* ================================================================== claims
Last(seq) == seq[Len(seq)]

\* the message of the last value model.generateContent threw in call i
lastMessage(i) == gen[i].lastFailure[1].message

\* call i is the call whose rejection the request caught
Rejected(i) ==
    /\ req.pc = "thrown"
    /\ gen[i].pc = "failed"
    /\ req.caught = gen[i].thrown

\* C1: every generateContent call invokes the model at most 3 times, one
\* invocation at a time, never again after a success, and returns the text
\* of the first successful attempt; after fail, fail, success it returns
\* the third text and two backoff delays have elapsed.
C1_RetryDiscipline ==
    \A i \in Calls :
        LET c == gen[i]
            n == Len(c.outcomes)
        IN  /\ c.invocations <= 3
            /\ c.invocations - n \in {0, 1}
            /\ (c.invocations = n + 1) <=> (c.pc = "call")
            /\ \A k \in 1..(n - 1) : c.outcomes[k] = "fail"
            /\ (n > 0 /\ Last(c.outcomes) = "ok") =>
                   /\ c.pc = "done"
                   /\ c.invocations = n
                   /\ c.result = Some(ModelText(i, n))
            /\ (c.pc = "done") => (n > 0 /\ Last(c.outcomes) = "ok")
            /\ (c.outcomes = <<"fail", "fail", "ok">>) =>
                   /\ c.result = Some(ModelText(i, 3))
                   /\ Len(c.delays) = 2

C1_Witness ==
    \E i \in Calls :
        gen[i].pc = "done" /\ gen[i].outcomes = <<"fail", "fail", "ok">>

\* C2 as stated: when a call fails on all 3 attempts, the message
\* summarizeVideo throws includes the attempt count and the message of the
\* call's last underlying error, whatever that message contains.
C2_AlwaysCountAndCause ==
    \A i \in Calls :
        Rejected(i) =>
            /\ includes(req.error[1], "3")
            /\ includes(req.error[1], lastMessage(i))

\* C2 amended: when a call fails on all 3 attempts the request fails; for
\* the first call to do so, the message thrown includes the attempt count
\* and the last underlying message if that message contains none of
\* 'quota', 'permission', 'transcript', and otherwise is the fixed user
\* message of the first of these keywords it contains.
C2_CountAndCauseUnlessClassified ==
    \A i \in Calls :
        /\ (gen[i].pc = "failed") => (req.pc = "thrown")
        /\ Rejected(i) =>
              LET m == lastMessage(i)
              IN  IF includes(m, "quota")
                  THEN req.error = Some("API quota exceeded. Please try again later.")
                  ELSE IF includes(m, "permission")
                  THEN req.error =
                         Some("Unable to access the video. It might be private or age-restricted.")
                  ELSE IF includes(m, "transcript")
                  THEN req.error =
                         Some("Unable to get video transcript. The video might not have captions available.")
                  ELSE /\ req.error = Some("Failed to summarize video: Failed to generate content after 3 attempts. " \o m)
                       /\ includes(req.error[1], "3")
                       /\ includes(req.error[1], m)

C2_Witness ==
    \E i \in Calls :
        /\ Rejected(i)
        /\ lastMessage(i) = MsgPlain
        /\ gen[i].outcomes = <<"fail", "fail", "fail">>

\* C3: the delay waited after the i-th failed attempt (i = 1, 2) is 2^i
\* seconds; after the 3rd failed attempt no timer is armed, no delay is
\* waited and no attempt is made: the call throws.
C3_BackoffSchedule ==
    \A i \in Calls :
        LET c == gen[i]
            n == Len(c.outcomes)
        IN  /\ Len(c.delays) <= 2
            /\ \A k \in 1..Len(c.delays) : c.delays[k] = (2 ^ k) * 1000
            /\ (c.pc = "backoff") =>
                   /\ n \in {1, 2}
                   /\ Last(c.outcomes) = "fail"
                   /\ c.timer = (2 ^ n) * 1000
                   /\ Len(c.delays) = n - 1
            /\ (c.pc = "call") => Len(c.delays) = c.invocations - 1
            /\ (n = 3 /\ Last(c.outcomes) = "fail") =>
                   /\ c.pc = "failed"
                   /\ c.thrown # Null
                   /\ c.timer = 0
                   /\ c.delays = <<2000, 4000>>
                   /\ c.invocations = 3

C3_Witness ==
    \E i \in Calls : gen[i].pc = "failed" /\ gen[i].delays = <<2000, 4000>>

\* C4: a request whose URL matches no pattern, or whose captured token is
\* not 11 characters long, has thrown the invalid-URL error and has issued
\* no metadata fetch, no transcript fetch and no model invocation.
C4_InvalidUrlBeforeAnyCall ==
    LET match == regExpMatch(req.url)
    IN  (req.pc # "idle" /\ (match = Null \/ Len(match[1]) # 11)) =>
            /\ req.pc = "thrown"
            /\ req.caught = Some(Error("Invalid YouTube URL"))
            /\ req.error = Some("Failed to summarize video: Invalid YouTube URL")
            /\ calls.info = 0
            /\ calls.transcript = 0
            /\ \A i \in Calls : gen[i].pc = "idle" /\ gen[i].invocations = 0

C4_Witness ==
    /\ req.pc = "thrown"
    /\ regExpMatch(req.url) # Null
    /\ Len(regExpMatch(req.url)[1]) = 12

\* C5: once the transcript service has failed or returned an empty
\* transcript, the request has thrown the transcript-unavailable message
\* (raised by summarizeVideo itself, not by the service), the transcript
\* was fetched exactly once and no model invocation exists.
C5_EmptyTranscriptFails ==
    (/\ calls.fetched # Null
     /\ \/ ~calls.fetched[1].ok
        \/ calls.fetched[1].texts \in {<<>>, <<"">>}) =>
        /\ req.pc = "thrown"
        /\ req.caught # Null
        /\ req.caught[1].isError
        /\ req.caught[1].message =
              "Unable to fetch video transcript. The video might not have captions available."
        /\ req.error =
              Some("Unable to get video transcript. The video might not have captions available.")
        /\ calls.transcript = 1
        /\ \A i \in Calls : gen[i].pc = "idle" /\ gen[i].invocations = 0

C5_Witness ==
    /\ calls.fetched # Null
    /\ ~calls.fetched[1].ok
    /\ req.pc = "thrown"

C7_AllOrNothing ==
    /\ (req.result # Null) <=> (req.pc = "returned")
    /\ (req.pc = "returned") =>
          /\ \A i \in Calls : gen[i].pc = "done" /\ gen[i].result # Null
          /\ req.result[1].shortSummary = gen[ShortCall].result[1]
          /\ req.result[1].longSummary = gen[LongCall].result[1]
          /\ req.error = Null
    /\ (\E i \in Calls : gen[i].pc = "failed") =>
          /\ req.pc = "thrown"
          /\ req.result = Null
          /\ req.error # Null

C7_Witness ==
    /\ req.pc = "thrown"
    /\ \E i, j \in Calls : gen[i].pc = "failed" /\ gen[j].pc = "done"

\* C8 as stated: when summarizeVideo has returned or thrown, none of its
\* generateContent calls is still running.
C8_NothingRunsAfterEnd ==
    (req.pc \in {"returned", "thrown"}) => \A i \in Calls : ~Running(gen[i])

\* C8 amended: when summarizeVideo has returned a result, none of its
\* calls is running, no invocation is outstanding and no backoff timer is
\* armed; when it has thrown before starting the calls none exists.  (When
\* it has thrown because a call exhausted its attempts, the other calls
\* are not awaited.)
C8_NothingRunsAfterReturn ==
    /\ (req.pc = "returned") =>
          \A i \in Calls :
              /\ ~Running(gen[i])
              /\ gen[i].timer = 0
              /\ gen[i].invocations = Len(gen[i].outcomes)
    /\ (req.pc = "thrown" /\ \A i \in Calls : gen[i].pc # "failed") =>
          \A i \in Calls : gen[i].pc = "idle"

C8_Witness ==
    /\ req.pc = "returned"
    /\ \E i, j \in Calls : i # j /\ gen[i].delays = <<2000, 4000>> /\ gen[j].delays = <<>>

\* C9: the progress interval of a submission is cancelled on completion
\* and on error: when no submission is in flight no interval of the form
\* is running, and while one is in flight only its own interval is.
C9_IntervalCancelled ==
    /\ (~isLoading) => (intervals = {})
    /\ isLoading => (intervals \subseteq {nsub})

\* C10: progress is always one of 0, 10, ..., 100; while a request is in
\* flight it is at most 90, every tick leaves it unchanged (only at the
\* ceiling, where the timer is cleared) or advances it by exactly 10; it
\* becomes 100 only in the step that stores the result summarizeVideo
\* returned.
C10_ProgressSteps ==
    /\ [](/\ progress \in {0, 10, 20, 30, 40, 50, 60, 70, 80, 90, 100}
          /\ isLoading => progress <= 90
          /\ (progress = 100) => (summary # Null /\ ~isLoading))
    /\ [][(isLoading /\ isLoading') =>
              /\ progress' \in {progress, progress + 10}
              /\ (progress' = progress /\ intervals' # intervals) => (progress = 90)
              /\ (progress < 90 /\ intervals' = intervals /\ UNCHANGED serverVars) =>
                     (progress' = progress + 10)]_vars
    /\ [][(progress' = 100 /\ progress # 100) =>
              /\ awaiting
              /\ req.pc = "returned"
              /\ summary' = req.result
              /\ summary' # Null]_vars

C10_Witness ==
    /\ isLoading
    /\ progress = 90
    /\ intervals = {}
    /\ nsub = 2

\* C11: a submission is accepted only while the form is not loading and no
\* summarizeVideo call is outstanding; the step that calls summarizeVideo
\* has set summary and error to null, progress and retryCount to 0 and
\* isLoading to true; isLoading stays true, and the results stay reset,
\* until the call has settled, so a call is outstanding only for the one
\* submission in flight.
C11_OneRequestAtATime ==
    /\ [](/\ awaiting <=> isLoading
          /\ Pending => isLoading
          /\ isLoading => (summary = Null /\ error = Null /\ retryCount = 0))
    /\ [][(nsub' # nsub) =>
              /\ nsub' = nsub + 1
              /\ ~isLoading
              /\ ~Pending
              /\ req'.pc # "idle"
              /\ summary' = Null
              /\ error' = Null
              /\ progress' = 0
              /\ retryCount' = 0
              /\ isLoading']_vars
    /\ [][(isLoading /\ ~isLoading') => (req.pc \in {"returned", "thrown"})]_vars

C11_Witness ==
    /\ isLoading
    /\ req.pc = "generating"
    /\ nsub = 2
    /\ progress = 0

\* C12: once the summarizeVideo call of a submission has settled, the form
\* eventually has isLoading false; a form that is not loading after a
\* submission holds exactly one of summary and error: the returned result
\* with error null, or the thrown message with summary null; summary and
\* error are never both non-null.
C12_SettledSubmissionShown ==
    /\ [](/\ ~(summary # Null /\ error # Null)
          /\ (~isLoading /\ nsub > 0) =>
                /\ (summary # Null) # (error # Null)
                /\ (req.pc = "returned") => (summary = req.result /\ error = Null)
                /\ (req.pc = "thrown") => (error = req.error /\ summary = Null))
    /\ ((isLoading /\ req.pc \in {"returned", "thrown"}) ~> ~isLoading)

C12_Witness ==
    /\ ~isLoading
    /\ nsub = 2
    /\ error # Null
    /\ summary = Null
    /\ \E i \in Calls : gen[i].pc = "failed"

\* C13: whatever stage failed, the message summarizeVideo throws is the
\* quota message, the access-restricted message, the transcript-unavailable
\* message, 'Failed to summarize video: ' followed by the message of the
\* caught Error, or the unexpected-error message; it is never the caught
\* message itself.
C13_UserFacingMessages ==
    /\ (req.pc = "thrown") <=> (req.error # Null)
    /\ (req.pc = "thrown") =>
          /\ req.caught # Null
          /\ req.error[1] # req.caught[1].message
          /\ \/ req.error[1] = "API quota exceeded. Please try again later."
             \/ req.error[1] =
                  "Unable to access the video. It might be private or age-restricted."
             \/ req.error[1] =
                  "Unable to get video transcript. The video might not have captions available."
             \/ /\ req.caught[1].isError
                /\ req.error[1] = "Failed to summarize video: " \o req.caught[1].message
             \/ /\ ~req.caught[1].isError
                /\ req.error[1] = "An unexpected error occurred while summarizing the video"

C13_Witness ==
    /\ req.pc = "thrown"
    /\ calls.info = 1
    /\ calls.transcript = 0
    /\ req.error = Some("Failed to summarize video: fetch failed")

\* C14: retryCount is 0 or 1 and is 0 while a submission is in flight;
\* after a failed submission it is 1 exactly when the displayed error
\* contains 'API quota' or 'try again'; a request rejected by a call that
\* used all its attempts and failed last on a quota error shows the quota
\* message with the retry label.
C14_RetryLabel ==
    /\ retryCount \in {0, 1}
    /\ isLoading => retryCount = 0
    /\ (error = Null) => retryCount = 0
    /\ (~isLoading /\ error # Null) =>
          /\ (retryCount > 0) <=>
                (includes(error[1], "API quota") \/ includes(error[1], "try again"))
          /\ (\E i \in Calls :
                 /\ Rejected(i)
                 /\ gen[i].invocations = 3
                 /\ includes(lastMessage(i), "quota")) =>
                /\ error = Some("API quota exceeded. Please try again later.")
                /\ retryCount = 1

C14_Witness ==
    /\ ~isLoading
    /\ retryCount = 1
    /\ error = Some("API quota exceeded. Please try again later.")
    /\ \E i \in Calls : Rejected(i) /\ gen[i].outcomes = <<"fail", "fail", "fail">>

\* C15: a transcript longer than 10,000 characters is placed in the prompts
\* as its first 10,000 characters followed by '...'; a transcript of at
\* most 10,000 characters is placed unmodified.
C15_TruncateToBudget ==
    (pure.fn = "truncate" /\ pure.output # Null) =>
        LET t == pure.input
            out == pure.output[1]
        IN  IF Len(t) > 10000
            THEN /\ Len(out) = 10003
                 /\ SubSeq(out, 1, 10000) = SubSeq(t, 1, 10000)
                 /\ SubSeq(out, 10001, 10003) = "..."
            ELSE out = t

C15_Witness ==
    /\ pure.fn = "truncate"
    /\ pure.output # Null
    /\ Len(pure.input) = 10001

SetMin(S) == CHOOSE x \in S : \A y \in S : x <= y
SetMax(S) == CHOOSE x \in S : \A y \in S : y <= x

\* the lines of s, in order: the stretches between line feeds
LinesOf(s) ==
    LET feeds == {i \in 1..Len(s) : CharAt(s, i) = "\n"}
        starts == {0} \cup feeds
        stops == feeds \cup {Len(s) + 1}
        line(b) == LET e == SetMin({c \in stops : c > b})
                   IN  IF e > b + 1 THEN SubSeq(s, b + 1, e - 1) ELSE ""
    IN  [k \in 1..Cardinality(starts) |->
            line(CHOOSE b \in starts : Cardinality({c \in starts : c <= b}) = k)]

IsBlank(l) == \A i \in 1..Len(l) : CharAt(l, i) \in WhiteSpace

\* l without the white space around it
Trimmed(l) ==
    LET solid == {i \in 1..Len(l) : CharAt(l, i) \notin WhiteSpace}
    IN  IF solid = {} THEN "" ELSE SubSeq(l, SetMin(solid), SetMax(solid))

\* l without a numeric list marker at its start (digits, a dot, white space)
\* and without the white space around the rest
Unmarked(l) ==
    LET dots == {d \in 2..Len(l) :
                    /\ CharAt(l, d) = "."
                    /\ \A i \in 1..(d - 1) : CharAt(l, i) \in Digits}
    IN  IF dots = {} THEN Trimmed(l)
        ELSE LET d == SetMin(dots)
             IN  IF d = Len(l) THEN "" ELSE Trimmed(SubSeq(l, d + 1, Len(l)))

\* C16: keyPoints is the sequence of the non-blank lines of the response,
\* in order, each without its leading numeric marker and trimmed;
\* '1. First', blank, '2. Second', '3. Third' gives First, Second, Third.
C16_KeyPointsParsed ==
    (pure.fn = "parseKeyPoints" /\ pure.output # Null) =>
        LET kept == SelectSeq(LinesOf(pure.input), LAMBDA l : ~IsBlank(l))
            out == pure.output[1]
        IN  /\ Len(out) = Len(kept)
            /\ \A k \in 1..Len(kept) : out[k] = Unmarked(kept[k])
            /\ (pure.input = "1. First\n\n2. Second\n3. Third") =>
                   out = <<"First", "Second", "Third">>

C16_Witness ==
    /\ pure.fn = "parseKeyPoints"
    /\ pure.input = "1. First\n\n2. Second\n3. Third"
    /\ pure.output # Null

\* C17: every element of keyPoints is a non-empty string.
C17_NoEmptyKeyPoint ==
    (pure.fn = "parseKeyPoints" /\ pure.output # Null) =>
        \A k \in 1..Len(pure.output[1]) : pure.output[1][k] # ""

Invocations == gen[ShortCall].invocations + gen[LongCall].invocations
                   + gen[KeyPointsCall].invocations

\* C18: within a request the metadata fetch is made at most once and only
\* for a valid identifier, the transcript fetch at most once and only after
\* the metadata fetch succeeded, model invocations only after a non-empty
\* transcript was obtained, and at most 9 model invocations are made.
C18_StagedCalls ==
    /\ calls.info \in {0, 1}
    /\ calls.transcript \in {0, 1}
    /\ (calls.info = 1) =>
          /\ regExpMatch(req.url) # Null
          /\ Len(regExpMatch(req.url)[1]) = 11
          /\ req.videoId = regExpMatch(req.url)
    /\ (calls.transcript = 1) =>
          /\ calls.info = 1
          /\ req.pc # "getInfo"
          /\ \E details \in VideoDetails : req.title = details.title
    /\ (Invocations > 0) =>
          /\ calls.transcript = 1
          /\ calls.fetched # Null
          /\ calls.fetched[1].ok
          /\ req.transcript # ""
          /\ \E k \in 1..Len(calls.fetched[1].texts) : calls.fetched[1].texts[k] # ""
    /\ Invocations <= 9

C18_Witness ==
    /\ Invocations = 9
    /\ calls.info = 1
    /\ calls.transcript = 1
====
